---- MODULE Spec2Model ----
(***************************************************************************)
(* OP appointment booking: the booking store, the hospital store, the      *)
(* payment gateway ledger and the request handlers that run concurrently   *)
(* against them.  Every handler is split at its awaits on the booking      *)
(* store and on the payment gateway: between two such steps any other      *)
(* handler may run.  Instants are minutes since the epoch (UTC); the       *)
(* server's local zone is taken to be UTC.                                 *)
(***************************************************************************)
EXTENDS Integers, Sequences, FiniteSets, TLC

VARIABLES hospitals, bookings, now, loc, orders, refunds, refundCalls

vars == <<hospitals, bookings, now, loc, orders, refunds, refundCalls>>

(* ------------------------------ bounds -------------------------------- *)
NProcs == 2
MaxBookings == 2
MaxTicks == 2
MaxPerSlot == 2
MaxRefunds == 2
MaxLifeBookings == 1

Procs == 1..NProcs

(* ------------------------- program constants -------------------------- *)
IstOffset == 330
MinutesPerDay == 1440
DefaultSlotDuration == 30
DefaultPatientsPerSlot == 1
ExpiryMinutes == 30
PlatformFee == 9
GstPercent == 18
FixedSlotMinutes == 30

(* The clock of the model: it starts at 04:30 UTC of day 0, which is      *)
(* 10:00 civil time in the +05:30 region, and advances half a day a tick. *)
Now0 == 270
TickMinutes == 720

(* ------------------------------ values -------------------------------- *)
None == "none"
BadDate == -1
HospitalIds == {"h1"}
RequestHospitalIds == {"h1", "h0"}
Statuses == {"pending", "confirmed", "rejected", "cancelled", "completed"}
NonTerminal == {"pending", "confirmed"}

RECURSIVE Digits(_)
Digits(n) == IF n < 10 THEN <<n>> ELSE Digits(n \div 10) \o <<n % 10>>

RECURSIVE PadStart(_, _, _)
PadStart(s, len, fill) == IF Len(s) >= len THEN s ELSE PadStart(<<fill>> \o s, len, fill)

ToUpperCase(c) ==
    CASE c = "c" -> "C" [] c = "i" -> "I" [] c = "t" -> "T" [] c = "y" -> "Y"
      [] OTHER -> c

Substring(s, from, to) ==
    [i \in 1..((IF to < Len(s) THEN to ELSE Len(s)) - from) |-> s[from + i]]

UpperAll(s) == [i \in 1..Len(s) |-> ToUpperCase(s[i])]

(* hospital.name.substring(0, 3).toUpperCase() followed by the padded count *)
TokenNumber(name, existingBookingsCount) ==
    UpperAll(Substring(name, 0, 3)) \o PadStart(Digits(existingBookingsCount + 1), 3, 0)

(* --------------------------- date and time ---------------------------- *)
DateRegexOk(d) == d # BadDate

TimeRegexOk(ts) ==
    /\ ts.hours \in 1..12
    /\ ts.minutes \in 0..59
    /\ ts.period \in {"AM", "PM"}

Hour24(ts) ==
    IF ts.period = "PM" /\ ts.hours # 12 THEN ts.hours + 12
    ELSE IF ts.period = "AM" /\ ts.hours = 12 THEN 0
    ELSE ts.hours

DateUTC(day, hour24, minutes) == day * MinutesPerDay + hour24 * 60 + minutes

AppointmentDateTime(req) == DateUTC(req.date, Hour24(req.timeSlot), req.timeSlot.minutes)

(* appointmentDateTimeIST <= istNow, both sides carrying the added offset *)
IsPastAppointment(req, t) == AppointmentDateTime(req) + IstOffset <= t + IstOffset

StartOfDay(t) == (t \div MinutesPerDay) * MinutesPerDay

SameDay(t, u) == StartOfDay(t) = StartOfDay(u)

(* the schema validator of appointmentDate, run by every save() *)
AppointmentDateValid(appt, t) == appt >= StartOfDay(t)

(* ----------------------------- the stores ----------------------------- *)
BookingIds == 1..Len(bookings)

HospitalAvailable(hid) ==
    /\ hid \in HospitalIds
    /\ hospitals[hid].status = "approved"
    /\ hospitals[hid].isOpen

SlotTaken(hid, appt) ==
    \E b \in BookingIds :
        /\ bookings[b].hospital = hid
        /\ bookings[b].appointmentDate = appt
        /\ bookings[b].status \in {"pending", "pending"}

CountInSlot(hid, startOfSlot, endOfSlot) ==
    Cardinality({b \in BookingIds :
        /\ bookings[b].hospital = hid
        /\ bookings[b].appointmentDate >= startOfSlot
        /\ bookings[b].appointmentDate < endOfSlot
        /\ bookings[b].status \in {"pending", "confirmed"}})

CountOnDay(hid, appt) ==
    Cardinality({b \in BookingIds :
        /\ bookings[b].hospital = hid
        /\ SameDay(bookings[b].appointmentDate, appt)})

(* Math.round of the quotient n / d of two naturals *)
Round(n, d) == (2 * n + d) \div (2 * d)

(* hospitalSchema.methods.calculateFees *)
CalculateFees(h) ==
    LET basePrice == h.opBookingPrice
        platformFee == PlatformFee
        gst == Round(platformFee * GstPercent, 100)
    IN  [basePrice |-> basePrice, platformFee |-> platformFee, gst |-> gst,
         totalAmount |-> basePrice + platformFee + gst]

(* a creation that confirms a cash booking at once *)
NewBookingMutant(req, appt, token, t, fees) ==
    [hospital |-> req.hospitalId,
     isEmergency |-> FALSE,
     amount |-> fees.totalAmount,
     platformFee |-> fees.platformFee,
     emergencyFee |-> 0,
     gst |-> fees.gst,
     total |-> fees.totalAmount,
     appointmentDate |-> appt,
     tokenNumber |-> token,
     status |-> IF req.paymentMethod = "cod" THEN "confirmed" ELSE "pending",
     rejectionReason |-> None,
     method |-> req.paymentMethod,
     payStatus |-> "pending",
     paymentId |-> None,
     orderId |-> None,
     refundDetails |-> None,
     createdAt |-> t]

(* new Booking({...}): the schema keeps the paths it declares, so the      *)
(* request's emergency flag and the breakdown's basePrice are dropped and  *)
(* isEmergency and emergencyFee take their defaults                        *)
NewBooking(req, appt, token, t, fees) ==
    [hospital |-> req.hospitalId,
     isEmergency |-> FALSE,
     amount |-> fees.totalAmount,
     platformFee |-> fees.platformFee,
     emergencyFee |-> 0,
     gst |-> fees.gst,
     total |-> fees.totalAmount,
     appointmentDate |-> appt,
     tokenNumber |-> token,
     status |-> "pending",
     rejectionReason |-> None,
     method |-> req.paymentMethod,
     payStatus |-> "pending",
     paymentId |-> None,
     orderId |-> None,
     refundDetails |-> None,
     createdAt |-> t]

(* ---------------------------- the handlers ---------------------------- *)
Idle == [op |-> "idle", pc |-> "idle", req |-> <<>>, b |-> 0, snap |-> <<>>,
         set |-> <<>>, token |-> <<>>, todo |-> <<>>, code |-> 0, msg |-> None,
         data |-> <<>>]

Running(p, op, pc) == loc[p].op = op /\ loc[p].pc = pc

(* a handler that has answered keeps the booking it was about and its answer *)
Respond(p, code, msg) ==
    loc' = [loc EXCEPT ![p] = [Idle EXCEPT !.op = loc[p].op, !.pc = "done",
                                            !.b = loc[p].b, !.code = code, !.msg = msg]]

Goto(p, pc, snap) ==
    loc' = [loc EXCEPT ![p].pc = pc, ![p].snap = snap]

(* a handler in progress keeps the booking it loaded, the paths it is to   *)
(* write and, when it creates a booking, the request                      *)
Begin(p, op, pc, b, req, set) ==
    loc' = [loc EXCEPT ![p] = [Idle EXCEPT !.op = op, !.pc = pc, !.b = b,
                                            !.req = IF op = "create" THEN req ELSE <<>>,
                                            !.set = set]]

Fail(p, op, b, req, code, msg) ==
    loc' = [loc EXCEPT ![p] = [Idle EXCEPT !.op = op, !.pc = "done", !.b = b,
                                            !.code = code, !.msg = msg]]

InFlightCreates == Cardinality({p \in Procs : loc[p].op = "create" /\ loc[p].pc # "done"})

(* 09:30 AM and 09:45 AM fall in one 30-minute slot; 12:15 AM is 00:15;    *)
(* 13:00 PM is no time of the 12-hour clock                                *)
Slot0930 == [hours |-> 9, minutes |-> 30, period |-> "AM"]
Slot0945 == [hours |-> 9, minutes |-> 45, period |-> "AM"]
Slot0015 == [hours |-> 12, minutes |-> 15, period |-> "AM"]
Slot1300 == [hours |-> 13, minutes |-> 0, period |-> "PM"]

(* well-formed requests to the registered hospital, for the days 0 and 1 *)
CreateRequests ==
    [hospitalId : HospitalIds, date : {0, 1}, timeSlot : {Slot0930, Slot0945},
     paymentMethod : {"online", "cod"}, isEmergency : {FALSE}]

(* requests of every kind: unknown hospital, malformed date or time, past *)
AnyRequests ==
    [hospitalId : RequestHospitalIds, date : {BadDate, 0, 1},
     timeSlot : {Slot0930, Slot0015, Slot1300}, paymentMethod : {"online"},
     isEmergency : BOOLEAN]

(* createBooking, up to its first store read: the format checks, the past  *)
(* check and the lookup of a booking already holding this instant          *)
CreateBookingBegin(p, req, max) ==
    /\ loc[p].op = "idle"
    /\ Len(bookings) + InFlightCreates < max
    /\ LET started == [Idle EXCEPT !.op = "create", !.req = req]
           fail(msg) == loc' = [loc EXCEPT ![p] =
                            [started EXCEPT !.pc = "done", !.code = 400, !.msg = msg]]
       IN  IF ~DateRegexOk(req.date) THEN fail("Invalid date format")
           ELSE IF ~TimeRegexOk(req.timeSlot) THEN fail("Invalid time format")
           ELSE IF IsPastAppointment(req, now)
                THEN fail("Appointment date and time must be in the future")
           ELSE IF SlotTaken(req.hospitalId, AppointmentDateTime(req))
                THEN fail("This time slot is already booked")
           ELSE loc' = [loc EXCEPT ![p] = [started EXCEPT !.pc = "findHospital"]]
    /\ UNCHANGED <<hospitals, bookings, now, orders, refunds, refundCalls>>

CreateBookingStart(p) ==
    \E req \in CreateRequests : CreateBookingBegin(p, req, MaxBookings)

(* the same handler, serving requests of every kind one at a time *)
CreateBookingStartAny(p) ==
    /\ \A q \in Procs : loc[q].op = "idle"
    /\ \E req \in AnyRequests : CreateBookingBegin(p, req, MaxBookings)

(* Hospital.findOne({_id, status: 'approved', isOpen: true}) *)
CreateBookingFindHospital(p) ==
    /\ Running(p, "create", "findHospital")
    /\ IF ~HospitalAvailable(loc[p].req.hospitalId)
       THEN Respond(p, 400, "Hospital is not available for booking")
       ELSE Goto(p, "countSlot", hospitals[loc[p].req.hospitalId])
    /\ UNCHANGED <<hospitals, bookings, now, orders, refunds, refundCalls>>

SlotDurationOf(h) == IF h.slotDuration # 0 THEN h.slotDuration ELSE DefaultSlotDuration

PatientsPerSlotOf(h) ==
    IF h.patientsPerSlot # 0 THEN h.patientsPerSlot ELSE DefaultPatientsPerSlot

(* Booking.countDocuments over [startOfSlot, endOfSlot) and the capacity test *)
CreateBookingCountSlot(p) ==
    /\ Running(p, "create", "countSlot")
    /\ LET startOfSlot == AppointmentDateTime(loc[p].req)
           endOfSlot == startOfSlot + SlotDurationOf(loc[p].snap)
       IN  IF CountInSlot(loc[p].req.hospitalId, startOfSlot, endOfSlot)
                >= PatientsPerSlotOf(loc[p].snap)
           THEN Respond(p, 400, "This time slot is fully booked")
           ELSE Goto(p, "countDay", loc[p].snap)
    /\ UNCHANGED <<hospitals, bookings, now, orders, refunds, refundCalls>>

(* Booking.countDocuments over the day, and the token made from the count *)
CreateBookingCountDay(p) ==
    /\ Running(p, "create", "countDay")
    /\ loc' = [loc EXCEPT ![p].pc = "save", ![p].token =
            TokenNumber(loc[p].snap.name,
                        CountOnDay(loc[p].req.hospitalId, AppointmentDateTime(loc[p].req)))]
    /\ UNCHANGED <<hospitals, bookings, now, orders, refunds, refundCalls>>

(* booking.save() and the BOOKING_CREATED notification that follows it *)
CreateBookingSave(p) ==
    /\ Running(p, "create", "save")
    /\ LET appt == AppointmentDateTime(loc[p].req)
       IN  IF ~AppointmentDateValid(appt, now)
           THEN /\ Respond(p, 400, "Appointment date cannot be in the past")
                /\ UNCHANGED bookings
           ELSE /\ bookings' = Append(bookings, NewBooking(loc[p].req, appt, loc[p].token, now,
                                                        CalculateFees(loc[p].snap)))
                /\ \E notified \in BOOLEAN :
                      IF ~notified
                      THEN Fail(p, "create", Len(bookings) + 1, loc[p].req, 400,
                                "notification failed")
                      ELSE IF loc[p].req.paymentMethod = "online"
                      THEN Begin(p, "create", "order", Len(bookings) + 1, loc[p].req, <<>>)
                      ELSE Fail(p, "create", Len(bookings) + 1, loc[p].req, 201, "created")
    /\ UNCHANGED <<hospitals, now, orders, refunds, refundCalls>>

(* razorpay.orders.create for an online booking *)
CreateBookingOrder(p) ==
    /\ Running(p, "create", "order")
    /\ \E created \in BOOLEAN :
          IF created
          THEN /\ orders' = orders \cup {loc[p].b}
               /\ Respond(p, 201, "created")
          ELSE /\ UNCHANGED orders
               /\ Respond(p, 400, "order creation failed")
    /\ UNCHANGED <<hospitals, bookings, now, refunds, refundCalls>>

(* the response has been sent: the worker is free for the next request *)
Return(p) ==
    /\ loc[p].pc = "done"
    /\ loc' = [loc EXCEPT ![p] = Idle]
    /\ UNCHANGED <<hospitals, bookings, now, orders, refunds, refundCalls>>


(* --------------------- the booking life cycle ------------------------- *)
(* a request may name a booking that is not in the store: id 0 *)
TargetIds == {0} \cup BookingIds

(* Assignments to a loaded document: a path is marked modified when the    *)
(* value assigned differs from the one it holds                            *)
Modified(doc, assigned) ==
    [f \in {g \in DOMAIN assigned : assigned[g] # doc[g]} |-> assigned[f]]

(* updateOne({_id}, {$set: ...}): document.save() sends the modified paths, *)
(* findOneAndUpdate sends its update data                                  *)
SetFields(b, updateData) ==
    [bookings EXCEPT ![b] =
        [f \in DOMAIN @ |-> IF f \in DOMAIN updateData THEN updateData[f] ELSE @[f]]]

(* the HMAC of `${orderId}|${paymentId}` under the gateway secret *)
Hmac(orderId, paymentId) == <<orderId, paymentId>>

PaymentIds == {"pay1"}

(* the signature the gateway issues is over its own order id; the other    *)
(* one is over the order id the booking record holds                       *)
Signatures == {Hmac("order1", "pay1"), Hmac(None, "pay1")}

(* verifyPayment: findById and the signature comparison *)
VerifyPaymentStart(p) ==
    /\ loc[p].op = "idle"
    /\ \E b \in TargetIds, paymentId \in PaymentIds, signature \in Signatures :
          LET req == [paymentId |-> paymentId, signature |-> signature]
          IN  IF b = 0 THEN Fail(p, "verify", b, req, 400, "Cannot read properties of null")
              ELSE IF Hmac(bookings[b].orderId, paymentId) # signature
                   THEN Fail(p, "verify", b, req, 400, "Invalid payment")
              ELSE Begin(p, "verify", "save", b, req,
                         Modified(bookings[b], [paymentId |-> paymentId,
                                                payStatus |-> "completed",
                                                status |-> "confirmed"]))
    /\ UNCHANGED <<hospitals, bookings, now, orders, refunds, refundCalls>>

(* a handler that undoes its save when the notification fails *)
SaveAndNotifyMutant(p, failCode) ==
    IF ~AppointmentDateValid(bookings[loc[p].b].appointmentDate, now)
    THEN /\ Respond(p, failCode, "Appointment date cannot be in the past")
         /\ UNCHANGED bookings
    ELSE \E notified \in BOOLEAN :
            IF notified
            THEN /\ bookings' = SetFields(loc[p].b, loc[p].set)
                 /\ Respond(p, 200, "ok")
            ELSE /\ UNCHANGED bookings
                 /\ Respond(p, failCode, "notification failed")

(* booking.save() of a handler, then its notification and its response *)
SaveAndNotify(p, failCode) ==
    IF ~AppointmentDateValid(bookings[loc[p].b].appointmentDate, now)
    THEN /\ Respond(p, failCode, "Appointment date cannot be in the past")
         /\ UNCHANGED bookings
    ELSE /\ bookings' = SetFields(loc[p].b, loc[p].set)
         /\ \E notified \in BOOLEAN :
               IF notified THEN Respond(p, 200, "ok")
               ELSE Respond(p, failCode, "notification failed")

VerifyPaymentSave(p) ==
    /\ Running(p, "verify", "save")
    /\ SaveAndNotify(p, 400)
    /\ UNCHANGED <<hospitals, now, orders, refunds, refundCalls>>

(* a table that lets a rejected booking be confirmed *)
ValidTransitionsMutant ==
    [pending |-> {"confirmed", "rejected"},
     confirmed |-> {"completed", "cancelled"},
     rejected |-> {"confirmed"},
     cancelled |-> {},
     completed |-> {}]

(* validTransitions of updateBookingStatus *)
ValidTransitions ==
    [pending |-> {"confirmed", "rejected"},
     confirmed |-> {"completed", "cancelled"},
     rejected |-> {},
     cancelled |-> {},
     completed |-> {}]

Reasons == {None, "Doctor unavailable"}

(* updateBookingStatus of the booking controller: findOne and the checks *)
UpdateBookingStatusStart(p) ==
    /\ loc[p].op = "idle"
    /\ \E b \in TargetIds, status \in Statuses, rejectionReason \in Reasons :
          LET req == [status |-> status, rejectionReason |-> rejectionReason]
          IN  IF b = 0 THEN Fail(p, "updateStatus", b, req, 404, "Booking not found")
              ELSE IF status \notin ValidTransitions[bookings[b].status]
                   THEN Fail(p, "updateStatus", b, req, 400, "Cannot change status")
              ELSE IF status = "rejected" /\ rejectionReason = None
                   THEN Fail(p, "updateStatus", b, req, 400, "Rejection reason is required")
              ELSE Begin(p, "updateStatus", "save", b, req,
                         Modified(bookings[b],
                             IF status = "rejected"
                             THEN [status |-> status, rejectionReason |-> rejectionReason]
                             ELSE [status |-> status]))
    /\ UNCHANGED <<hospitals, bookings, now, orders, refunds, refundCalls>>

UpdateBookingStatusSave(p) ==
    /\ Running(p, "updateStatus", "save")
    /\ SaveAndNotify(p, 400)
    /\ UNCHANGED <<hospitals, now, orders, refunds, refundCalls>>

InFlightCancels == Cardinality({p \in Procs : loc[p].op = "cancel" /\ loc[p].pc # "done"})

(* cancelBooking: findOne, the status check and the choice of a refund *)
CancelBookingStart(p) ==
    /\ loc[p].op = "idle"
    /\ Len(refunds) + InFlightCancels < MaxRefunds
    /\ \E b \in TargetIds :
          IF b = 0 THEN Fail(p, "cancel", b, <<>>, 404, "Booking not found")
          ELSE IF bookings[b].status \notin {"pending", "confirmed"}
               THEN Fail(p, "cancel", b, <<>>, 400, "Cannot cancel booking in current status")
          ELSE IF bookings[b].method = "online" /\ bookings[b].payStatus = "completed"
               THEN Begin(p, "cancel", "refund", b, <<>>, <<>>)
          ELSE Begin(p, "cancel", "save", b, <<>>,
                     Modified(bookings[b], [status |-> "cancelled"]))
    /\ UNCHANGED <<hospitals, bookings, now, orders, refunds, refundCalls>>

(* a handler that swallows the refund's error and cancels all the same *)
CancelBookingRefundMutant(p) ==
    /\ Running(p, "cancel", "refund")
    /\ refundCalls' = refundCalls \cup {loc[p].b}
    /\ \E refunded \in BOOLEAN :
          IF refunded
          THEN /\ refunds' = Append(refunds, loc[p].b)
               /\ loc' = [loc EXCEPT ![p].pc = "save",
                                     ![p].set = [payStatus |-> "refunded",
                                                 status |-> "cancelled"]]
          ELSE /\ UNCHANGED refunds
               /\ loc' = [loc EXCEPT ![p].pc = "save",
                                     ![p].set = [status |-> "cancelled"]]
    /\ UNCHANGED <<hospitals, bookings, now, orders>>

(* razorpay.payments.refund: it succeeds or it throws *)
CancelBookingRefund(p) ==
    /\ Running(p, "cancel", "refund")
    /\ refundCalls' = refundCalls \cup {loc[p].b}
    /\ \E refunded \in BOOLEAN :
          IF refunded
          THEN /\ refunds' = Append(refunds, loc[p].b)
               /\ loc' = [loc EXCEPT ![p].pc = "save",
                                     ![p].set = [payStatus |-> "refunded",
                                                 status |-> "cancelled"]]
          ELSE /\ UNCHANGED refunds
               /\ Respond(p, 500, "Unable to process refund")
    /\ UNCHANGED <<hospitals, bookings, now, orders>>

CancelBookingSave(p) ==
    /\ Running(p, "cancel", "save")
    /\ SaveAndNotify(p, 500)
    /\ UNCHANGED <<hospitals, now, orders, refunds, refundCalls>>

(* manageBooking: findOne and the checks of the requested status *)
ManageBookingStart(p) ==
    /\ loc[p].op = "idle"
    /\ \E b \in TargetIds, status \in Statuses, rejectionReason \in Reasons :
          LET req == [status |-> status, rejectionReason |-> rejectionReason]
          IN  IF b = 0 THEN Fail(p, "manage", b, req, 404, "Booking not found")
              ELSE IF status \notin {"confirmed", "rejected", "completed"}
                   THEN Fail(p, "manage", b, req, 400, "Invalid status")
              ELSE IF status = "rejected" /\ rejectionReason = None
                   THEN Fail(p, "manage", b, req, 400, "Rejection reason is required")
              ELSE Begin(p, "manage", "update", b, req,
                         IF status = "rejected"
                         THEN [status |-> status, rejectionReason |-> rejectionReason]
                         ELSE [status |-> status])
    /\ UNCHANGED <<hospitals, bookings, now, orders, refunds, refundCalls>>

(* manageBooking: findOneAndUpdate of status and rejectionReason *)
ManageBookingUpdate(p) ==
    /\ Running(p, "manage", "update")
    /\ bookings' = SetFields(loc[p].b, loc[p].set)
    /\ Respond(p, 200, "ok")
    /\ UNCHANGED <<hospitals, now, orders, refunds, refundCalls>>

(* updateBookingStatus of the hospital controller: findOne *)
HospitalUpdateBookingStatusStart(p) ==
    /\ loc[p].op = "idle"
    /\ \E b \in TargetIds, status \in Statuses, rejectionReason \in Reasons :
          LET req == [status |-> status, rejectionReason |-> rejectionReason]
          IN  IF b = 0 THEN Fail(p, "hospitalUpdate", b, req, 404, "Booking not found")
              ELSE Begin(p, "hospitalUpdate", "save", b, req,
                         Modified(bookings[b],
                             IF status = "rejected"
                             THEN [status |-> status, rejectionReason |-> rejectionReason]
                             ELSE [status |-> status]))
    /\ UNCHANGED <<hospitals, bookings, now, orders, refunds, refundCalls>>

(* updateBookingStatus of the hospital controller: booking.save() *)
HospitalUpdateBookingStatusSave(p) ==
    /\ Running(p, "hospitalUpdate", "save")
    /\ IF ~AppointmentDateValid(bookings[loc[p].b].appointmentDate, now)
       THEN /\ Respond(p, 400, "Appointment date cannot be in the past")
            /\ UNCHANGED bookings
       ELSE /\ bookings' = SetFields(loc[p].b, loc[p].set)
            /\ Respond(p, 200, "ok")
    /\ UNCHANGED <<hospitals, now, orders, refunds, refundCalls>>

(* updateCodPaymentStatus: the checks, findById and the update data *)
UpdateCodPaymentStatusStart(p) ==
    /\ loc[p].op = "idle"
    /\ \E b \in TargetIds, paymentStatus \in {"completed", "failed", "pending"} :
          LET req == [paymentStatus |-> paymentStatus]
          IN  IF paymentStatus \notin {"completed", "failed"}
              THEN Fail(p, "cod", b, req, 400, "Invalid payment status")
              ELSE IF b = 0 THEN Fail(p, "cod", b, req, 404, "Booking not found")
              ELSE IF bookings[b].method # "cod"
                   THEN Fail(p, "cod", b, req, 400, "This booking is not a COD payment")
              ELSE Begin(p, "cod", "update", b, req,
                         IF paymentStatus = "completed" /\ bookings[b].status = "pending"
                         THEN [payStatus |-> paymentStatus, status |-> "confirmed"]
                         ELSE [payStatus |-> paymentStatus])
    /\ UNCHANGED <<hospitals, bookings, now, orders, refunds, refundCalls>>

(* updateCodPaymentStatus: findOneAndUpdate *)
UpdateCodPaymentStatusUpdate(p) ==
    /\ Running(p, "cod", "update")
    /\ bookings' = SetFields(loc[p].b, loc[p].set)
    /\ Respond(p, 200, "ok")
    /\ UNCHANGED <<hospitals, now, orders, refunds, refundCalls>>

(* handleExpiredBookings: the pending bookings created over 30 minutes ago *)
ExpiredBookings ==
    LET Expired(b) == /\ bookings[b].status = "pending"
                      /\ bookings[b].createdAt < now - ExpiryMinutes
    IN  SelectSeq([b \in 1..Len(bookings) |-> b], Expired)

HandleExpiredBookingsFind(p) ==
    /\ loc[p].op = "idle"
    /\ \A q \in Procs : loc[q].op # "sweep"
    /\ IF ExpiredBookings = <<>>
       THEN Fail(p, "sweep", 0, <<>>, 200, "ok")
       ELSE loc' = [loc EXCEPT ![p] = [Idle EXCEPT !.op = "sweep", !.pc = "save",
                                                    !.todo = ExpiredBookings]]
    /\ UNCHANGED <<hospitals, bookings, now, orders, refunds, refundCalls>>

(* a sweep that deletes the expired booking instead of cancelling it *)
HandleExpiredBookingsSaveMutant(p) ==
    /\ Running(p, "sweep", "save")
    /\ LET b == Head(loc[p].todo)
       IN  bookings' = [i \in 1..(Len(bookings) - 1) |->
                           IF i < b THEN bookings[i] ELSE bookings[i + 1]]
    /\ Respond(p, 200, "ok")
    /\ UNCHANGED <<hospitals, now, orders, refunds, refundCalls>>

(* handleExpiredBookings: one round of the loop; a save or a notification  *)
(* that throws ends the sweep                                              *)
HandleExpiredBookingsSave(p) ==
    /\ Running(p, "sweep", "save")
    /\ LET b == Head(loc[p].todo)
       IN  IF ~AppointmentDateValid(bookings[b].appointmentDate, now)
           THEN /\ Respond(p, 500, "Scheduler error")
                /\ UNCHANGED bookings
           ELSE /\ bookings' = [bookings EXCEPT ![b].status = "cancelled"]
                /\ \E notified \in BOOLEAN :
                      IF notified /\ Tail(loc[p].todo) # <<>>
                      THEN loc' = [loc EXCEPT ![p].todo = Tail(loc[p].todo)]
                      ELSE IF notified THEN Respond(p, 200, "ok")
                      ELSE Respond(p, 500, "Scheduler error")
    /\ UNCHANGED <<hospitals, now, orders, refunds, refundCalls>>

(* ------------------------- the token override ------------------------ *)
UpperLetters == {"C", "I", "T", "Y"}

(* /^[A-Z]{3}\d{3}$/ *)
TokenRegexOk(tok) ==
    /\ Len(tok) = 6
    /\ \A i \in 1..3 : tok[i] \in UpperLetters
    /\ \A i \in 4..6 : tok[i] \in 0..9

(* the tokens a hospital may ask for: the first of the day, a fresh one,   *)
(* one in lower case, and none                                             *)
RequestTokens ==
    {<<"C", "I", "T", 0, 0, 1>>, <<"C", "I", "T", 0, 0, 9>>,
     <<"c", "i", "t", 0, 0, 1>>, <<>>}

(* Booking.findOne({hospital, tokenNumber, appointmentDate in the day,     *)
(* _id: {$ne: booking._id}})                                               *)
TokenInUse(b, tok) ==
    \E c \in BookingIds :
        /\ c # b
        /\ bookings[c].hospital = bookings[b].hospital
        /\ bookings[c].tokenNumber = tok
        /\ SameDay(bookings[c].appointmentDate, bookings[b].appointmentDate)

(* updateBookingToken of the hospital controller: the checks of the        *)
(* request, Hospital.findOne and Booking.findOne                           *)
UpdateBookingTokenStart(p) ==
    /\ loc[p].op = "idle"
    /\ \E b \in TargetIds, tokenNumber \in RequestTokens :
          IF tokenNumber = <<>>
          THEN Fail(p, "token", b, <<>>, 400, "Token number is required")
          ELSE IF b = 0 THEN Fail(p, "token", b, <<>>, 404, "Booking not found")
          ELSE IF ~TokenRegexOk(tokenNumber)
               THEN Fail(p, "token", b, <<>>, 400, "Invalid token number format")
          ELSE loc' = [loc EXCEPT ![p] = [Idle EXCEPT !.op = "token", !.pc = "findExisting",
                                                       !.b = b, !.token = tokenNumber]]
    /\ UNCHANGED <<hospitals, bookings, now, orders, refunds, refundCalls>>

(* updateBookingToken: the lookup of another booking of the day that holds *)
(* the token                                                               *)
UpdateBookingTokenFindExisting(p) ==
    /\ Running(p, "token", "findExisting")
    /\ IF TokenInUse(loc[p].b, loc[p].token)
       THEN Respond(p, 400, "Token number already in use for this date")
       ELSE loc' = [loc EXCEPT ![p].pc = "save"]
    /\ UNCHANGED <<hospitals, bookings, now, orders, refunds, refundCalls>>

(* updateBookingToken: booking.tokenNumber = tokenNumber; booking.save() *)
UpdateBookingTokenSave(p) ==
    /\ Running(p, "token", "save")
    /\ IF ~AppointmentDateValid(bookings[loc[p].b].appointmentDate, now)
       THEN /\ Respond(p, 500, "Appointment date cannot be in the past")
            /\ UNCHANGED bookings
       ELSE /\ bookings' = [bookings EXCEPT ![loc[p].b].tokenNumber = loc[p].token]
            /\ Respond(p, 200, "Token number updated successfully")
    /\ UNCHANGED <<hospitals, now, orders, refunds, refundCalls>>

(* ------------------------- the hospital store ------------------------- *)
(* updateHospitalActiveStatus: hospital.isOpen = req.body.isOpen *)
UpdateHospitalActiveStatus(hid) ==
    /\ \E open \in BOOLEAN :
          /\ open # hospitals[hid].isOpen
          /\ hospitals' = [hospitals EXCEPT ![hid].isOpen = open]
    /\ UNCHANGED <<bookings, now, loc, orders, refunds, refundCalls>>

(* updateHospitalStatus: hospital.status = status *)
UpdateHospitalStatus(hid) ==
    /\ \E status \in {"approved", "rejected"} :
          /\ status # hospitals[hid].status
          /\ hospitals' = [hospitals EXCEPT ![hid].status = status]
    /\ UNCHANGED <<bookings, now, loc, orders, refunds, refundCalls>>

(* ---------------------- slots and slot settings ---------------------- *)
(* "HH:mm".split(':').map(Number): a time of day is kept as the pair of  *)
(* its hour and its minute                                                 *)
MinutesOfDay(t) == t[1] * 60 + t[2]

(* calculateTotalSlots: every open entry of the timings table adds the     *)
(* half-hour slots between its opening and its closing time                *)
RECURSIVE CalculateTotalSlots(_)
CalculateTotalSlots(timings) ==
    IF timings = <<>> THEN 0
    ELSE LET timing == Head(timings)
             totalMinutes == MinutesOfDay(timing.closeTime) - MinutesOfDay(timing.openTime)
         IN  (IF timing.isOpen THEN totalMinutes \div FixedSlotMinutes ELSE 0)
                 + CalculateTotalSlots(Tail(timings))

(* calculateAvailableSlots: the capacity of the day less the pending and   *)
(* confirmed bookings of the server's current day                          *)
CalculateAvailableSlots(hid, date, totalSlots, patientsPerSlot) ==
    LET bookedAppointments ==
            Cardinality({b \in BookingIds :
                /\ bookings[b].hospital = hid
                /\ SameDay(bookings[b].appointmentDate, date)
                /\ bookings[b].status \in {"confirmed", "pending"}})
    IN  totalSlots * patientsPerSlot - bookedAppointments

(* a handler that answers in the step that received the request *)
Answer(p, op, code, msg, data) ==
    loc' = [loc EXCEPT ![p] = [Idle EXCEPT !.op = op, !.pc = "done", !.code = code,
                                            !.msg = msg, !.data = data]]

(* getHospital: the hospital document with its slot figures.  The document *)
(* has no top-level patientsPerSlot path, so hospital.patientsPerSlot || 1 *)
(* is 1                                                                    *)
GetHospital(p) ==
    /\ loc[p].op = "idle"
    /\ \E hid \in RequestHospitalIds :
          IF hid \notin HospitalIds
          THEN Answer(p, "getHospital", 404, "Hospital not found", <<>>)
          ELSE LET totalSlotsPerDay == CalculateTotalSlots(hospitals[hid].timings)
                   availableSlots ==
                       CalculateAvailableSlots(hid, now, totalSlotsPerDay, DefaultPatientsPerSlot)
               IN  Answer(p, "getHospital", 200, None,
                          [id |-> hid, totalSlotsPerDay |-> totalSlotsPerDay,
                           availableSlots |-> availableSlots,
                           patientsPerSlot |-> DefaultPatientsPerSlot])
    /\ UNCHANGED <<hospitals, bookings, now, orders, refunds, refundCalls>>

(* updateSlotSettings: hospital.patientsPerSlot = patientsPerSlot sets a   *)
(* property that is no path of the hospital schema (the capacity that      *)
(* createBooking reads is slotSettings.patientsPerSlot), so hospital.save()*)
(* stores nothing; the answer echoes the property of the loaded document   *)
UpdateSlotSettings(p) ==
    /\ loc[p].op = "idle"
    /\ \E hid \in RequestHospitalIds, patientsPerSlot \in 0..MaxPerSlot :
          IF patientsPerSlot < 1
          THEN Answer(p, "slotSettings", 400, "Patients per slot must be at least 1", <<>>)
          ELSE IF hid \notin HospitalIds
               THEN Answer(p, "slotSettings", 404, "Hospital not found", <<>>)
          ELSE IF hospitals[hid].timings = <<>>
               THEN Answer(p, "slotSettings", 400, "Please set hospital timings first", <<>>)
          ELSE Answer(p, "slotSettings", 200, "Slot settings updated successfully",
                      [id |-> hid, patientsPerSlot |-> patientsPerSlot])
    /\ UNCHANGED <<hospitals, bookings, now, orders, refunds, refundCalls>>

Tick ==
    /\ now < Now0 + MaxTicks * TickMinutes
    /\ now' = now + TickMinutes
    /\ UNCHANGED <<hospitals, bookings, loc, orders, refunds, refundCalls>>

(* --------------------------- specifications --------------------------- *)
(* a free and a paid consultation; a ceiling of one booking a day and one  *)
(* the bookings of the model never reach                                   *)
Prices == {0, 500}
DailyCeilings == {1, 10}

(* Monday to Friday 09:00-18:00, the table of a registered hospital *)
Weekdays == <<"monday", "tuesday", "wednesday", "thursday", "friday">>

OfficeHours ==
    [i \in 1..5 |->
        [day |-> Weekdays[i], openTime |-> <<9, 0>>, closeTime |-> <<18, 0>>, isOpen |-> TRUE]]

Init ==
    /\ hospitals \in [HospitalIds ->
          [name : {<<"c", "i", "t", "y">>},
           status : {"approved"},
           isOpen : {TRUE},
           patientsPerSlot : 1..MaxPerSlot,
           slotDuration : {30},
           timings : {OfficeHours},
           emergencyServices : BOOLEAN,
           opBookingPrice : Prices,
           maxOpBookingsPerDay : DailyCeilings]]
    /\ bookings = <<>>
    /\ now = Now0
    /\ loc = [p \in Procs |-> Idle]
    /\ orders = {}
    /\ refunds = <<>>
    /\ refundCalls = {}

CreateSteps ==
    \/ \E p \in Procs : CreateBookingFindHospital(p)
    \/ \E p \in Procs : CreateBookingCountSlot(p)
    \/ \E p \in Procs : CreateBookingCountDay(p)
    \/ \E p \in Procs : CreateBookingSave(p)
    \/ \E p \in Procs : CreateBookingOrder(p)
    \/ \E p \in Procs : Return(p)

(* concurrent creation of bookings at the registered hospital *)
CreateNext ==
    \/ \E p \in Procs : CreateBookingStart(p)
    \/ CreateSteps

SpecCreate == Init /\ [][CreateNext]_vars

(* admission of requests of every kind, while the clock advances and the  *)
(* hospital is opened, closed, approved and rejected                       *)
AdmitNext ==
    \/ \E p \in Procs : CreateBookingStartAny(p)
    \/ CreateSteps
    \/ \E hid \in HospitalIds : UpdateHospitalActiveStatus(hid)
    \/ \E hid \in HospitalIds : UpdateHospitalStatus(hid)
    \/ Tick

SpecAdmit == Init /\ [][AdmitNext]_vars

(* the life cycle of bookings created one at a time *)
LifeRequests ==
    [hospitalId : HospitalIds, date : {0}, timeSlot : {Slot0930},
     paymentMethod : {"online", "cod"}, isEmergency : {FALSE}]

CreateBookingStartLife(p) ==
    /\ \A q \in Procs : loc[q].op # "create"
    /\ \E req \in LifeRequests : CreateBookingBegin(p, req, MaxLifeBookings)

PaymentSteps ==
    \/ \E p \in Procs : CreateBookingStartLife(p)
    \/ CreateSteps
    \/ \E p \in Procs : VerifyPaymentStart(p)
    \/ \E p \in Procs : VerifyPaymentSave(p)
    \/ \E p \in Procs : CancelBookingStart(p)
    \/ \E p \in Procs : CancelBookingRefund(p)
    \/ \E p \in Procs : CancelBookingSave(p)

(* the user, the booking controller's status route and the expiry sweep *)
LifeNext ==
    \/ PaymentSteps
    \/ \E p \in Procs : UpdateBookingStatusStart(p)
    \/ \E p \in Procs : UpdateBookingStatusSave(p)
    \/ \E p \in Procs : HandleExpiredBookingsFind(p)
    \/ \E p \in Procs : HandleExpiredBookingsSave(p)
    \/ Tick

InitLife ==
    /\ Init
    /\ \A hid \in HospitalIds :
          /\ hospitals[hid].patientsPerSlot = 1
          /\ ~hospitals[hid].emergencyServices
          /\ hospitals[hid].opBookingPrice = 500
          /\ hospitals[hid].maxOpBookingsPerDay = 10

SpecLife == InitLife /\ [][LifeNext]_vars

(* the user and the hospital desk: every route that writes a status *)
DeskNext ==
    \/ PaymentSteps
    \/ \E p \in Procs : UpdateBookingStatusStart(p)
    \/ \E p \in Procs : UpdateBookingStatusSave(p)
    \/ \E p \in Procs : ManageBookingStart(p)
    \/ \E p \in Procs : ManageBookingUpdate(p)
    \/ \E p \in Procs : HospitalUpdateBookingStatusStart(p)
    \/ \E p \in Procs : HospitalUpdateBookingStatusSave(p)
    \/ \E p \in Procs : UpdateCodPaymentStatusStart(p)
    \/ \E p \in Procs : UpdateCodPaymentStatusUpdate(p)

SpecDesk == InitLife /\ [][DeskNext]_vars

(* bookings of one day created one at a time, and the hospital's token   *)
(* overrides running beside them                                           *)
TokenDayRequests ==
    [hospitalId : HospitalIds, date : {0}, timeSlot : {Slot0930, Slot0945},
     paymentMethod : {"online"}, isEmergency : {FALSE}]

CreateBookingStartSerial(p) ==
    /\ \A q \in Procs : loc[q].op # "create"
    /\ \E req \in TokenDayRequests : CreateBookingBegin(p, req, MaxBookings)

TokenNext ==
    \/ \E p \in Procs : CreateBookingStartSerial(p)
    \/ CreateSteps
    \/ \E p \in Procs : UpdateBookingTokenStart(p)
    \/ \E p \in Procs : UpdateBookingTokenFindExisting(p)
    \/ \E p \in Procs : UpdateBookingTokenSave(p)

SpecToken == InitLife /\ [][TokenNext]_vars

(* an unpaid booking, the clock and the scheduler's expiry sweep: the     *)
(* scheduler fires again and again, time passes, and a handler that has    *)
(* started runs on to its answer                                           *)
ExpiryNext ==
    \/ \E p \in Procs : CreateBookingStartLife(p)
    \/ CreateSteps
    \/ \E p \in Procs : HandleExpiredBookingsFind(p)
    \/ \E p \in Procs : HandleExpiredBookingsSave(p)
    \/ Tick

SpecExpiry ==
    /\ InitLife
    /\ [][ExpiryNext]_vars
    /\ WF_vars(Tick)
    /\ WF_vars(CreateSteps)
    /\ \A p \in Procs : WF_vars(HandleExpiredBookingsFind(p))
    /\ \A p \in Procs : WF_vars(HandleExpiredBookingsSave(p))

(* the hospital page of hospitals of every timings table and slot length *)
SlotDurations == {15, 30, 45, 60}
OpenTimes == {<<9, 0>>, <<10, 30>>}
CloseTimes == {<<18, 0>>, <<13, 20>>}

TimingEntries(day) ==
    [day : {day}, openTime : OpenTimes, closeTime : CloseTimes, isOpen : BOOLEAN]

TimingTables ==
    {<<>>} \cup {<<m>> : m \in TimingEntries("monday")}
           \cup {<<m, t>> : m \in TimingEntries("monday"), t \in TimingEntries("tuesday")}

InitSlots ==
    /\ hospitals \in [HospitalIds ->
          [name : {<<"c", "i", "t", "y">>},
           status : {"approved"},
           isOpen : {TRUE},
           patientsPerSlot : {DefaultPatientsPerSlot},
           slotDuration : SlotDurations,
           timings : TimingTables,
           emergencyServices : {FALSE},
           opBookingPrice : {500},
           maxOpBookingsPerDay : {10}]]
    /\ bookings = <<>>
    /\ now = Now0
    /\ loc = [p \in Procs |-> Idle]
    /\ orders = {}
    /\ refunds = <<>>
    /\ refundCalls = {}

SlotsNext ==
    \/ \E p \in Procs : GetHospital(p)
    \/ \E p \in Procs : Return(p)

SpecSlots == InitSlots /\ [][SlotsNext]_vars

(* the hospital's slot settings route beside bookings of one day created  *)
(* one at a time                                                           *)
InitSettings ==
    /\ hospitals \in [HospitalIds ->
          [name : {<<"c", "i", "t", "y">>},
           status : {"approved"},
           isOpen : {TRUE},
           patientsPerSlot : 1..MaxPerSlot,
           slotDuration : {DefaultSlotDuration},
           timings : {<<>>, OfficeHours},
           emergencyServices : {FALSE},
           opBookingPrice : {500},
           maxOpBookingsPerDay : {10}]]
    /\ bookings = <<>>
    /\ now = Now0
    /\ loc = [p \in Procs |-> Idle]
    /\ orders = {}
    /\ refunds = <<>>
    /\ refundCalls = {}

SettingsNext ==
    \/ \E p \in Procs : CreateBookingStartSerial(p)
    \/ CreateSteps
    \/ \E p \in Procs : UpdateSlotSettings(p)

SpecSettings == InitSettings /\ [][SettingsNext]_vars

(* the two handlers that check the transition before they write, at work  *)
(* on the same bookings: the hospital's status route and the user's cancel *)
(* of bookings that no payment has been verified for                      *)
RaceNext ==
    \/ \E p \in Procs : CreateBookingStartLife(p)
    \/ CreateSteps
    \/ \E p \in Procs : CancelBookingStart(p)
    \/ \E p \in Procs : CancelBookingSave(p)
    \/ \E p \in Procs : UpdateBookingStatusStart(p)
    \/ \E p \in Procs : UpdateBookingStatusSave(p)

SpecRace == InitLife /\ [][RaceNext]_vars

(* ------------------------------ claims -------------------------------- *)
(* the transition table of the life cycle: pending -> confirmed, pending   *)
(* -> rejected, confirmed -> completed, confirmed -> cancelled, and the    *)
(* user's cancellation of a pending booking                                *)
LegalTable ==
    {<<"pending", "confirmed">>, <<"pending", "rejected">>,
     <<"confirmed", "completed">>, <<"confirmed", "cancelled">>,
     <<"pending", "cancelled">>}

StartsHandler(p, op) == loc[p].op = "idle" /\ loc'[p].op = op

(* the slot bucket of an instant: the slot-length window, counted from     *)
(* midnight, it falls in                                                   *)
SlotBucket(hid, t) == t \div SlotDurationOf(hospitals[hid])

NonTerminalInBucket(hid, bucket) ==
    {b \in BookingIds :
        /\ bookings[b].hospital = hid
        /\ bookings[b].status \in NonTerminal
        /\ SlotBucket(hid, bookings[b].appointmentDate) = bucket}

(* C1: for every hospital and slot bucket, the pending or confirmed        *)
(* bookings whose appointment falls in the bucket number at most the       *)
(* hospital's patientsPerSlot, under any interleaving of createBooking     *)
C1_SlotCapacity ==
    \A b \in BookingIds :
        Cardinality(NonTerminalInBucket(bookings[b].hospital,
                        SlotBucket(bookings[b].hospital, bookings[b].appointmentDate)))
            <= PatientsPerSlotOf(hospitals[bookings[b].hospital])

(* C2: no two bookings of one hospital and calendar day carry the same     *)
(* tokenNumber, under any interleaving of the count and the insert         *)
C2_TokensUnique ==
    \A b, c \in BookingIds :
        (/\ b # c
         /\ bookings[b].hospital = bookings[c].hospital
         /\ SameDay(bookings[b].appointmentDate, bookings[c].appointmentDate))
        => bookings[b].tokenNumber # bookings[c].tokenNumber

(* C3: a request of updateBookingStatus passes the check only if the pair  *)
(* (status read, status requested) is in the table, and cancelBooking      *)
(* passes it only for a pending or confirmed booking; a request that does  *)
(* not pass is answered with an error and the store is left as it was      *)
C3_IllegalTransitionFails ==
    [][\A p \in Procs :
          /\ (StartsHandler(p, "updateStatus") /\ loc'[p].b # 0) =>
                \/ /\ loc'[p].pc = "save"
                   /\ "status" \in DOMAIN loc'[p].set
                   /\ <<bookings[loc'[p].b].status, loc'[p].set.status>> \in LegalTable
                \/ /\ loc'[p].pc = "done"
                   /\ loc'[p].code >= 400
                   /\ bookings' = bookings
          /\ (/\ StartsHandler(p, "cancel")
              /\ loc'[p].b # 0
              /\ bookings[loc'[p].b].status \in {"rejected", "cancelled", "completed"}) =>
                /\ loc'[p].pc = "done"
                /\ loc'[p].code >= 400
                /\ bookings' = bookings]_vars

(* both handlers have turned a request down *)
C3_Witness ==
    \E p, q \in Procs :
        /\ loc[p].op = "updateStatus" /\ loc[p].pc = "done" /\ loc[p].b # 0
        /\ loc[p].msg = "Cannot change status"
        /\ bookings[loc[p].b].status = "rejected"
        /\ loc[q].op = "cancel" /\ loc[q].pc = "done" /\ loc[q].b # 0
        /\ loc[q].msg = "Cannot cancel booking in current status"

(* C4: every change of a persisted booking's status, by whichever route,   *)
(* is a transition of the table                                            *)
C4_EveryWriterLegal ==
    [][\A b \in BookingIds :
          bookings'[b].status # bookings[b].status
          => <<bookings[b].status, bookings'[b].status>> \in LegalTable]_vars

OnlinePaid(b) == bookings[b].method = "online" /\ bookings[b].payStatus = "completed"

(* C5: cancelBooking of a booking it reads as online and payment-completed *)
(* calls the refund before it writes anything, and writes the refunded     *)
(* payment only after a refund; when the refund fails the handler answers  *)
(* with an error, the store is as it was and no refund is booked           *)
C5_RefundBeforeCancel ==
    [][\A p \in Procs :
          /\ (/\ StartsHandler(p, "cancel")
              /\ loc'[p].b # 0
              /\ bookings[loc'[p].b].status \in NonTerminal
              /\ OnlinePaid(loc'[p].b)) =>
                /\ loc'[p].pc = "refund"
                /\ bookings' = bookings
          /\ (Running(p, "cancel", "refund") /\ loc'[p] # loc[p]) =>
                /\ loc[p].b \in refundCalls'
                /\ bookings' = bookings
                /\ \/ /\ loc'[p].pc = "save"
                      /\ refunds' = Append(refunds, loc[p].b)
                   \/ /\ loc'[p].pc = "done"
                      /\ loc'[p].code = 500
                      /\ refunds' = refunds
          /\ (/\ Running(p, "cancel", "save")
              /\ loc'[p] # loc[p]
              /\ "payStatus" \in DOMAIN loc[p].set) =>
                \E i \in 1..Len(refunds) : refunds[i] = loc[p].b]_vars

(* a refund has failed and the confirmed, paid booking is as it was *)
C5_Witness ==
    \E p \in Procs :
        /\ loc[p].op = "cancel" /\ loc[p].pc = "done" /\ loc[p].code = 500
        /\ loc[p].msg = "Unable to process refund"
        /\ bookings[loc[p].b].status = "confirmed"
        /\ OnlinePaid(loc[p].b)
        /\ loc[p].b \in refundCalls
        /\ refunds = <<>>

(* C6: no booking is cancelled while its payment is online and completed   *)
(* unless a refund was attempted for it                                    *)
C6_CancelledPaidWasRefunded ==
    \A b \in BookingIds :
        (bookings[b].status = "cancelled" /\ OnlinePaid(b)) => b \in refundCalls

(* C7: after createBooking has answered that the gateway order could not   *)
(* be created, the booking it had persisted is in the store no more        *)
C7_OrderFailureRollsBack ==
    \A p \in Procs :
        (loc[p].op = "create" /\ loc[p].pc = "done" /\ loc[p].msg = "order creation failed")
        => loc[p].b \notin BookingIds

(* C8: every step that turns a booking to rejected stores a non-empty      *)
(* rejection reason with it                                                *)
C8_RejectionStoresReason ==
    [][\A b \in BookingIds :
          (bookings'[b].status = "rejected" /\ bookings[b].status # "rejected")
          => bookings'[b].rejectionReason # None]_vars

(* the instant a civil date and time of the +05:30 region denote *)
CivilInstant(req) == AppointmentDateTime(req) - IstOffset

WellFormed(req) == DateRegexOk(req.date) /\ TimeRegexOk(req.timeSlot)

(* C9: createBooking turns down every well-formed request whose civil date *)
(* and time, read in the +05:30 offset, are not strictly after now         *)
C9_PastAppointmentRejected ==
    [][\A p \in Procs :
          (/\ StartsHandler(p, "create")
           /\ WellFormed(loc'[p].req)
           /\ CivilInstant(loc'[p].req) <= now) =>
              /\ loc'[p].pc = "done"
              /\ loc'[p].code = 400
              /\ loc'[p].msg = "Appointment date and time must be in the future"]_vars

(* C10: a request against a hospital that is unknown, not approved or not  *)
(* open is never answered with the slot-taken or the slot-full failure     *)
C10_UnavailableHospitalFailure ==
    [][\A p \in Procs :
          (/\ StartsHandler(p, "create")
           /\ WellFormed(loc'[p].req)
           /\ ~IsPastAppointment(loc'[p].req, now)
           /\ ~HospitalAvailable(loc'[p].req.hospitalId)) =>
              loc'[p].msg \notin {"This time slot is already booked",
                                  "This time slot is fully booked"}]_vars

(* C11: the hospital lookup of createBooking turns down, with a 400, every *)
(* request that carries the emergency flag when the hospital it finds has  *)
(* emergencyServices = false                                               *)
C11_EmergencyNeedsService ==
    [][\A p \in Procs :
          (/\ Running(p, "create", "findHospital")
           /\ loc'[p] # loc[p]
           /\ loc[p].req.isEmergency
           /\ HospitalAvailable(loc[p].req.hospitalId)
           /\ ~hospitals[loc[p].req.hospitalId].emergencyServices) =>
              /\ loc'[p].pc = "done"
              /\ loc'[p].code = 400]_vars

(* C12: the total persisted in a booking's breakdown is the sum of the     *)
(* platform fee, the emergency fee and the tax persisted with it           *)
C12_BreakdownTotalIsSum ==
    \A b \in BookingIds :
        bookings[b].total
            = bookings[b].platformFee + bookings[b].emergencyFee + bookings[b].gst

(* C13: a well-formed request that arrives alone while its slot bucket     *)
(* holds fewer pending or confirmed bookings than patientsPerSlot is not   *)
(* turned away with the slot-taken or the slot-full failure                *)
C13_RoomMeansAccepted ==
    [][\A p \in Procs :
          (/\ StartsHandler(p, "create")
           /\ InFlightCreates = 0
           /\ HospitalAvailable(loc'[p].req.hospitalId)
           /\ Cardinality(NonTerminalInBucket(loc'[p].req.hospitalId,
                  SlotBucket(loc'[p].req.hospitalId, AppointmentDateTime(loc'[p].req))))
                < PatientsPerSlotOf(hospitals[loc'[p].req.hospitalId])) =>
              loc'[p].msg \notin {"This time slot is already booked",
                                  "This time slot is fully booked"}]_vars

(* C14: for every hospital and calendar day the pending or confirmed       *)
(* bookings number at most the hospital's maxOpBookingsPerDay              *)
C14_DailyCeiling ==
    \A b \in BookingIds :
        Cardinality({c \in BookingIds :
            /\ bookings[c].hospital = bookings[b].hospital
            /\ SameDay(bookings[c].appointmentDate, bookings[b].appointmentDate)
            /\ bookings[c].status \in NonTerminal})
          <= hospitals[bookings[b].hospital].maxOpBookingsPerDay

(* the handlers whose step may take a cash booking to confirmed *)
CodConfirmedBy(ops) ==
    \A b \in BookingIds :
        (/\ bookings[b].method = "cod"
         /\ bookings[b].status # "confirmed"
         /\ bookings'[b].status = "confirmed") =>
            \E p \in Procs : loc[p].op \in ops /\ loc[p].b = b /\ loc'[p] # loc[p]

CreatedPending ==
    /\ \A b \in 1..Len(bookings') :
          b > Len(bookings) =>
              bookings'[b].status = "pending" /\ bookings'[b].payStatus = "pending"
    /\ \A p \in Procs :
          (loc[p].op = "create" /\ loc'[p] # loc[p]) =>
              \A b \in BookingIds : bookings'[b] = bookings[b]

C16_TokenFormat ==
    [][\A p \in Procs :
          (Running(p, "create", "save") /\ Len(bookings') = Len(bookings) + 1) =>
              LET new == bookings'[Len(bookings')]
                  tok == new.tokenNumber
                  seq == PadStart(Digits(CountOnDay(new.hospital, new.appointmentDate) + 1),
                                  3, 0)
                  marker == IF loc[p].req.isEmergency THEN 1 ELSE 0
              IN  /\ Len(tok) = 3 + marker + Len(seq)
                  /\ SubSeq(tok, 1, 3) = <<"C", "I", "T">>
                  /\ SubSeq(tok, Len(tok) - Len(seq) + 1, Len(tok)) = seq]_vars

(* C17: after any sequence of token overrides and creations, overrides     *)
(* running concurrently included, the bookings of one hospital and day     *)
(* carry pairwise different tokens                                         *)
C17_OverrideKeepsTokensUnique ==
    \A b \in BookingIds : ~TokenInUse(b, bookings[b].tokenNumber)

C19_NotificationFailureKeepsChange ==
    [][\A p \in Procs :
          (/\ loc[p].op \in {"create", "verify", "updateStatus", "cancel"}
           /\ loc[p].pc # "done"
           /\ loc'[p].pc = "done"
           /\ loc'[p].msg = "notification failed") =>
              IF loc[p].op = "create"
              THEN /\ Len(bookings') = Len(bookings) + 1
                   /\ loc'[p].b = Len(bookings')
                   /\ bookings'[loc'[p].b].status = "pending"
                   /\ bookings'[loc'[p].b].payStatus = "pending"
                   /\ bookings'[loc'[p].b].hospital = loc[p].req.hospitalId
              ELSE /\ Len(bookings') = Len(bookings)
                   /\ \A f \in DOMAIN loc[p].set :
                         bookings'[loc[p].b][f] = loc[p].set[f]]_vars

(* a cancellation with a refund has been saved and its notification has    *)
(* failed: the booking is cancelled and refunded                           *)
C19_Witness ==
    \E p \in Procs :
        /\ loc[p].op = "cancel" /\ loc[p].pc = "done"
        /\ loc[p].msg = "notification failed"
        /\ bookings[loc[p].b].status = "cancelled"
        /\ bookings[loc[p].b].payStatus = "refunded"

(* C20: an online booking that is pending, unpaid and older than the       *)
(* inactivity window is eventually out of pending: the sweep cancels it    *)
(* unless another transition has taken it first                            *)
C20_ExpiredEventuallyCancelled ==
    \A b \in 1..MaxLifeBookings :
        (/\ b \in BookingIds
         /\ bookings[b].method = "online"
         /\ bookings[b].status = "pending"
         /\ bookings[b].payStatus = "pending"
         /\ bookings[b].createdAt < now - ExpiryMinutes)
        ~> (b \in BookingIds /\ bookings[b].status # "pending")

(* C21: every booking for which createBooking has had the gateway create   *)
(* an order holds that order's reference in payment.orderId                *)
C21_OrderReferenceStored ==
    \A b \in orders : b \in BookingIds /\ bookings[b].orderId # None

(* C22: a booking whose payment status is refunded holds a refund record   *)
(* and is cancelled                                                        *)
C22_RefundedHasRecord ==
    \A b \in BookingIds :
        bookings[b].payStatus = "refunded" =>
            /\ bookings[b].refundDetails # None
            /\ bookings[b].status = "cancelled"

(* C23: the total of daily slots that getHospital reports for a hospital  *)
(* is the slot count of one operating day of its timings table, that is    *)
(* floor((closeTime - openTime) / slotDuration) with the hospital's own    *)
(* slot duration for an open day and 0 for a closed one; an empty table    *)
(* gives 0.                                                                *)
DaySlots(timing, slotDuration) ==
    IF timing.isOpen
    THEN (MinutesOfDay(timing.closeTime) - MinutesOfDay(timing.openTime)) \div slotDuration
    ELSE 0

C23_TotalDailySlots ==
    \A p \in Procs :
        (loc[p].op = "getHospital" /\ loc[p].code = 200) =>
            LET h == hospitals[loc[p].data.id]
            IN  IF h.timings = <<>> THEN loc[p].data.totalSlotsPerDay = 0
                ELSE \E i \in 1..Len(h.timings) :
                        loc[p].data.totalSlotsPerDay = DaySlots(h.timings[i], h.slotDuration)

(* C24: once updateSlotSettings has answered success for a hospital with  *)
(* patientsPerSlot = n, the admission test of createBooking for that       *)
(* hospital works with the capacity n: a request that has loaded the       *)
(* hospital as it is stored is turned away as slot full exactly when its   *)
(* slot bucket already holds n pending or confirmed bookings.              *)
SettingsAnswered(q, hid, n) ==
    /\ loc[q].op = "slotSettings"
    /\ loc[q].code = 200
    /\ loc[q].data = [id |-> hid, patientsPerSlot |-> n]

C24_SettingsGovernAdmission ==
    [][\A p \in Procs, q \in Procs, n \in 1..MaxPerSlot :
          LET hid == loc[p].req.hospitalId
              startOfSlot == AppointmentDateTime(loc[p].req)
              endOfSlot == startOfSlot + SlotDurationOf(loc[p].snap)
          IN  (/\ Running(p, "create", "countSlot")
               /\ loc'[p].pc # "countSlot"
               /\ loc[p].snap = hospitals[hid]
               /\ SettingsAnswered(q, hid, n)
               /\ \A r \in Procs, m \in 1..MaxPerSlot :
                      SettingsAnswered(r, hid, m) => m = n)
              => (loc'[p].pc = "done" <=> CountInSlot(hid, startOfSlot, endOfSlot) >= n)]_vars

(* C25: verifyPayment changes a booking only when the signature verifies. *)
(* A call whose signature does not verify fails and leaves the bookings as *)
(* they are; a call whose signature verifies leaves the booking with       *)
(* payment.status completed, the payment id of the request and the status  *)
(* confirmed.                                                              *)
C25_VerifyPaymentBySignature ==
    [][\A p \in Procs :
          /\ (StartsHandler(p, "verify") /\ loc'[p].pc = "done") =>
                 /\ loc'[p].code = 400
                 /\ bookings' = bookings
          /\ (Running(p, "verify", "save") /\ loc'[p].pc = "done") =>
                 /\ bookings'[loc[p].b].payStatus = "completed"
                 /\ bookings'[loc[p].b].status = "confirmed"]_vars

(* C26: updateCodPaymentStatus changes the status of a booking only from  *)
(* pending to confirmed, and only for a cash booking reported as paid: a   *)
(* request that fails writes nothing, and a booking that is no longer      *)
(* pending when the handler writes keeps its status.                       *)
C26_CodConfirmsOnlyPending ==
    [][\A p \in Procs :
          /\ (StartsHandler(p, "cod") /\ loc'[p].pc = "done") => bookings' = bookings
          /\ (Running(p, "cod", "update") /\ loc'[p].pc = "done") =>
                 LET b == loc[p].b
                 IN  bookings'[b].status # bookings[b].status =>
                        /\ bookings[b].status = "pending"
                        /\ bookings'[b].status = "confirmed"
                        /\ bookings[b].method = "cod"
                        /\ bookings'[b].payStatus = "completed"]_vars

(* C27: the gateway refunds a booking at most once, however many          *)
(* cancelBooking calls are made for it, one after the other or at once.    *)
RefundsOf(b) == Cardinality({i \in 1..Len(refunds) : refunds[i] = b})

C27_AtMostOneRefund ==
    \A b \in BookingIds : RefundsOf(b) <= 1

(* C28: updateBookingStatus and cancelBooking at work on the same booking *)
(* never both take effect from the same status read: whenever the save of  *)
(* one of them changes the stored status, the change from the status that  *)
(* was in the store to the new one is a transition of the table.           *)
C28_ValidatedWritersFollowTable ==
    [][\A p \in Procs :
          (/\ loc[p].op \in {"updateStatus", "cancel"}
           /\ loc[p].pc = "save"
           /\ loc'[p].pc = "done") =>
              LET b == loc[p].b
              IN  bookings'[b].status # bookings[b].status =>
                     <<bookings[b].status, bookings'[b].status>> \in LegalTable]_vars

(* C29: when the refund that cancelBooking asked for has succeeded, the   *)
(* handler's store write leaves the booking cancelled with payment.status  *)
(* refunded: the handler never ends, after a refund, with the booking      *)
(* stored as it was.                                                       *)
C29_RefundIsPersisted ==
    [][\A p \in Procs :
          (/\ Running(p, "cancel", "save")
           /\ "payStatus" \in DOMAIN loc[p].set
           /\ loc'[p].pc = "done") =>
              /\ bookings'[loc[p].b].status = "cancelled"
              /\ bookings'[loc[p].b].payStatus = "refunded"]_vars

(* C30: when createBooking, verifyPayment, updateBookingStatus or          *)
(* cancelBooking answers with an error, the store is as it was: the step   *)
(* in which the handler comes to its error answer adds no booking and      *)
(* changes none.                                                           *)
C30_ErrorLeavesStore ==
    [][\A p \in Procs :
          (/\ loc'[p].op \in {"create", "verify", "updateStatus", "cancel"}
           /\ loc[p].pc # "done"
           /\ loc'[p].pc = "done"
           /\ loc'[p].code >= 400) => bookings' = bookings]_vars

====
